---- MODULE Spec2Model ----
(***************************************************************************)
(* Model of bad_video_cleaner.py: a multiprocessing pool probes every      *)
(* video file with cvlc, the parent aggregates the results in completion   *)
(* order into good / corrupted and a log, prints a summary and then        *)
(* removes the corrupted files unless dry_run is set.                      *)
(*                                                                         *)
(* Paths are the integers 1..n.  A text (stderr, a reason) is a sequence   *)
(* of fragments whose concatenation is the string; the fragments " ",      *)
(* "\n" and "\t" are whitespace.  A log line is the tuple of its           *)
(* tab-separated fields.                                                   *)
(***************************************************************************)
EXTENDS Integers, Sequences, FiniteSets, TLC

\* ---------------------------------------------------------------- bounds
NumFiles == 3
MaxWorkers == 2

\* ------------------------------------------------------------ probe world
\* What subprocess.run does for one file: the process exits with a return
\* code and a stderr text, the timeout expires, the cvlc binary is missing
\* (FileNotFoundError), or any other exception is raised (PermissionError,
\* UnicodeDecodeError while decoding stderr, OSError ...).
Exit(rc, err) == [kind |-> "exit", returncode |-> rc, stderr |-> err]
TimeoutExpired == [kind |-> "timeout", returncode |-> 0, stderr |-> <<>>]
FileNotFoundError == [kind |-> "nocvlc", returncode |-> 0, stderr |-> <<>>]
OtherException == [kind |-> "raise", returncode |-> 0, stderr |-> <<>>]

ProbeEvents ==
  { Exit(0, <<>>),
    Exit(1, <<" ", "decoder error", "\n">>),
    Exit(1, <<>>),
    TimeoutExpired, FileNotFoundError, OtherException }

IsSpace(ch) == ch \in {" ", "\n", "\t"}

RECURSIVE lstrip(_)
lstrip(s) ==
  IF s = <<>> THEN <<>>
  ELSE IF IsSpace(Head(s)) THEN lstrip(Tail(s)) ELSE s

RECURSIVE rstrip(_)
rstrip(s) ==
  IF s = <<>> THEN <<>>
  ELSE IF IsSpace(s[Len(s)]) THEN rstrip(SubSeq(s, 1, Len(s) - 1)) ELSE s

\* str.strip()
strip(s) == rstrip(lstrip(s))

TimeoutReason == <<"timeout expired">>
NotFoundReason ==
  <<"cvlc not found, please install VLC and ensure 'cvlc' is in PATH">>

\* vlc_can_play(path): [raised, playable, reason] for the probe event ev.
\* raised = TRUE stands for an exception leaving the function.
vlc_can_play(ev) ==
  IF ev.kind = "exit" THEN
    IF ev.returncode # 0
    THEN [raised |-> FALSE, playable |-> FALSE, reason |-> strip(ev.stderr)]
    ELSE [raised |-> FALSE, playable |-> TRUE, reason |-> <<"ok">>]
  ELSE IF ev.kind = "timeout" THEN
    [raised |-> FALSE, playable |-> FALSE, reason |-> TimeoutReason]
  ELSE IF ev.kind = "nocvlc" THEN
    [raised |-> FALSE, playable |-> FALSE, reason |-> NotFoundReason]
  ELSE
    [raised |-> TRUE, playable |-> FALSE, reason |-> <<>>]

check_video_no_not(path, ev) ==
  LET r == vlc_can_play(ev) IN
  IF r.raised
  THEN [exc |-> TRUE, path |-> path, is_corrupt |-> FALSE, reason |-> <<>>]
  ELSE [exc |-> FALSE, path |-> path, is_corrupt |-> r.playable,
        reason |-> r.reason]

\* check_video(path): the item the pool hands back to the parent, either
\* the tuple (path, is_corrupt, reason) or the exception of the worker.
check_video(path, ev) ==
  LET r == vlc_can_play(ev) IN
  IF r.raised
  THEN [exc |-> TRUE, path |-> path, is_corrupt |-> FALSE, reason |-> <<>>]
  ELSE [exc |-> FALSE, path |-> path, is_corrupt |-> ~r.playable,
        reason |-> r.reason]

\* ------------------------------------------------------------------ state
VARIABLES
  files,      \* list of collected paths
  workers,    \* pool size
  dry_run,    \* --dry-run
  probe,      \* path -> what the probe of that path does
  pc,         \* position of scan_videos
  taskq,      \* tasks not yet taken by a pool worker
  running,    \* paths whose check_video call is in flight
  outq,       \* finished items not yet yielded by imap_unordered
  good,       \* list good
  corrupted,  \* list corrupted
  log,        \* lines written to the log file
  summary,    \* the "Scan Complete" block, <<>> until printed
  delIdx,     \* position of the deletion loop in corrupted
  removeLog,  \* outcome of every os.remove call, in order
  fs,         \* paths of the scanned files that exist
  abortCause, \* why scan_videos was left by an exception
  dryNote     \* "Dry run mode: No files deleted." was printed

vars == <<files, workers, dry_run, probe, pc, taskq, running, outq, good,
          corrupted, log, summary, delIdx, removeLog, fs, abortCause,
          dryNote>>

Range(s) == { s[i] : i \in 1..Len(s) }

Init ==
  \E n \in 0..NumFiles :
    /\ files = [i \in 1..n |-> i]
    /\ fs = 1..n
    /\ probe \in [1..n -> ProbeEvents]
    /\ workers \in 1..MaxWorkers
    /\ dry_run \in BOOLEAN
    /\ pc = "start"
    /\ taskq = <<>>
    /\ running = {}
    /\ outq = <<>>
    /\ good = <<>>
    /\ corrupted = <<>>
    /\ log = <<>>
    /\ summary = <<>>
    /\ delIdx = 1
    /\ removeLog = <<>>
    /\ abortCause = "none"
    /\ dryNote = FALSE

\* ---------------------------------------------------------------- actions
\* Lines 48-60: nothing to do for an empty list, else the pool is created,
\* the log opened and every file submitted.
Begin ==
  /\ pc = "start"
  /\ IF files = <<>>
     THEN pc' = "nofiles" /\ UNCHANGED taskq
     ELSE pc' = "scan" /\ taskq' = files
  /\ UNCHANGED <<files, workers, dry_run, probe, running, outq, good,
                 corrupted, log, summary, delIdx, removeLog, fs, abortCause,
                 dryNote>>

\* The task queue once a worker has taken its head.
RemainingTasksPeek == taskq

RemainingTasks == Tail(taskq)

\* A free pool worker takes the next task.
Dispatch ==
  /\ pc = "scan"
  /\ taskq # <<>>
  /\ Cardinality(running) < workers
  /\ running' = running \cup {Head(taskq)}
  /\ taskq' = RemainingTasks
  /\ UNCHANGED <<files, workers, dry_run, probe, pc, outq, good, corrupted,
                 log, summary, delIdx, removeLog, fs, abortCause, dryNote>>

\* check_video returns (or raises) in a worker; the item is queued for the
\* parent.  The probe ends in every case: subprocess.run kills the child
\* when the timeout expires.
ProbeReturn(p) ==
  /\ pc = "scan"
  /\ p \in running
  /\ running' = running \ {p}
  /\ outq' = Append(outq, check_video(p, probe[p]))
  /\ UNCHANGED <<files, workers, dry_run, probe, pc, taskq, good, corrupted,
                 log, summary, delIdx, removeLog, fs, abortCause, dryNote>>

\* Number of items the result loop has received.
Received == Len(good) + Len(corrupted)

ExhaustedWhenIdle == outq = <<>> /\ taskq = <<>>

\* imap_unordered is exhausted: one item per submitted task was yielded.
Exhausted == Received = Len(files)

PcAfterWorkerErrorSwallowed == "delete"

\* Where scan_videos goes when the result iterator re-raises the exception
\* of a worker: the with-block terminates the pool and the exception leaves
\* scan_videos.
PcAfterWorkerError == "aborted"

\* Lines 61-73: one iteration of the result loop.
Consume ==
  /\ pc = "scan"
  /\ outq # <<>>
  /\ LET item == Head(outq) IN
     IF item.exc
     THEN /\ pc' = PcAfterWorkerError
          /\ abortCause' = "probe_error"
          /\ taskq' = <<>>
          /\ running' = {}
          /\ outq' = <<>>
          /\ UNCHANGED <<good, corrupted, log>>
     ELSE /\ outq' = Tail(outq)
          /\ IF item.is_corrupt
             THEN /\ corrupted' = Append(corrupted, item.path)
                  /\ log' = Append(log, <<"CORRUPT", item.reason, item.path>>)
                  /\ UNCHANGED good
             ELSE /\ good' = Append(good, item.path)
                  /\ log' = Append(log, <<"OK", item.path>>)
                  /\ UNCHANGED corrupted
          /\ UNCHANGED <<pc, abortCause, taskq, running>>
  /\ UNCHANGED <<files, workers, dry_run, probe, summary, delIdx, removeLog,
                 fs, dryNote>>

ShouldDeleteIgnoringDryRun == corrupted # <<>>

\* Line 80: the deletion loop is entered.
ShouldDelete == corrupted # <<>> /\ ~dry_run

\* Lines 75-80: the loop has ended, the summary is printed.
ScanComplete ==
  /\ pc = "scan"
  /\ Exhausted
  /\ summary' = <<Len(good), Len(corrupted), "log_path">>
  /\ pc' = IF ShouldDelete THEN "delete" ELSE "final"
  /\ UNCHANGED <<files, workers, dry_run, probe, taskq, running, outq, good,
                 corrupted, log, delIdx, removeLog, fs, abortCause, dryNote>>

DeletionListAll == good \o corrupted

\* Line 82: the list the deletion loop walks.
DeletionList == corrupted

IdxAfterRemoveErrorBreak == Len(corrupted) + 1

\* Lines 86-87: position of the loop after os.remove raised an Exception.
IdxAfterRemoveError == delIdx + 1

\* Lines 82-87: one iteration of the deletion loop.  os.remove succeeds and
\* the file is gone, or raises an OSError that is printed.
Remove ==
  /\ pc = "delete"
  /\ delIdx <= Len(DeletionList)
  /\ LET file == DeletionList[delIdx] IN
     \/ /\ file \in fs
        /\ fs' = fs \ {file}
        /\ removeLog' = Append(removeLog, <<"Deleted", file>>)
        /\ delIdx' = delIdx + 1
     \/ /\ removeLog' = Append(removeLog, <<"Could not delete", file>>)
        /\ delIdx' = IdxAfterRemoveError
        /\ UNCHANGED fs
  /\ UNCHANGED <<files, workers, dry_run, probe, pc, taskq, running, outq,
                 good, corrupted, log, summary, abortCause, dryNote>>

\* The deletion loop is over.
DeleteDone ==
  /\ pc = "delete"
  /\ delIdx > Len(DeletionList)
  /\ pc' = "final"
  /\ UNCHANGED <<files, workers, dry_run, probe, taskq, running, outq, good,
                 corrupted, log, summary, delIdx, removeLog, fs, abortCause,
                 dryNote>>

\* Lines 89-90.
Final ==
  /\ pc = "final"
  /\ dryNote' = dry_run
  /\ pc' = "done"
  /\ UNCHANGED <<files, workers, dry_run, probe, taskq, running, outq, good,
                 corrupted, log, summary, delIdx, removeLog, fs, abortCause>>

\* KeyboardInterrupt in the parent: not an Exception, so nothing in
\* scan_videos catches it, neither in the result loop nor in the deletion
\* loop.
Interrupt ==
  /\ pc \in {"scan", "delete"}
  /\ pc' = "aborted"
  /\ abortCause' = "interrupt"
  /\ UNCHANGED <<files, workers, dry_run, probe, taskq, running, outq, good,
                 corrupted, log, summary, delIdx, removeLog, fs, dryNote>>

Run ==
  \/ Begin
  \/ Dispatch
  \/ \E p \in 1..NumFiles : ProbeReturn(p)
  \/ Consume
  \/ ScanComplete
  \/ Remove
  \/ DeleteDone
  \/ Final

Next == Run \/ Interrupt

Spec == Init /\ [][Next]_vars

\* The program without user interrupts, every enabled step eventually taken.
LiveSpec == Init /\ [][Run]_vars /\ WF_vars(Run)

\* The fully sequential run: the files are probed and aggregated one after
\* the other in submission order, starting at position i with the lists g
\* and c.
RECURSIVE SeqScan(_, _, _)
SeqScan(i, g, c) ==
  IF i > Len(files) THEN [good |-> g, corrupted |-> c, aborted |-> FALSE]
  ELSE LET item == check_video(files[i], probe[files[i]]) IN
       IF item.exc THEN [good |-> g, corrupted |-> c, aborted |-> TRUE]
       ELSE IF item.is_corrupt
            THEN SeqScan(i + 1, g, Append(c, item.path))
            ELSE SeqScan(i + 1, Append(g, item.path), c)

\* ----------------------------------------------------------------- claims
Count(s, x) == Cardinality({ i \in 1..Len(s) : s[i] = x })
LinePath(l) == l[Len(l)]
LogPaths == [i \in 1..Len(log) |-> LinePath(log[i])]
RemovePaths == [i \in 1..Len(removeLog) |-> removeLog[i][2]]
AggregationComplete == summary # <<>>

\* C1: when aggregation has completed, every submitted file is exactly once
\* in good or corrupted (never in both, never twice) and has exactly one log
\* line, so len(good) + len(corrupted) = number of log lines = N; before
\* that no file is classified or logged twice.
C1_ExactlyOneResult ==
  /\ \A f \in Range(files) :
       /\ Count(good \o corrupted, f) <= 1
       /\ Count(LogPaths, f) <= 1
  /\ AggregationComplete =>
       /\ \A f \in Range(files) :
            /\ Count(good \o corrupted, f) = 1
            /\ Count(LogPaths, f) = 1
       /\ Len(good) + Len(corrupted) = Len(files)
       /\ Len(log) = Len(files)

C1_Witness ==
  /\ pc = "done"
  /\ Len(files) >= 2
  /\ workers >= 2
  /\ good # <<>>
  /\ corrupted # <<>>
  /\ Len(good) + Len(corrupted) = Len(files)

\* C2: os.remove was attempted on a file only if the file is in corrupted
\* and its CORRUPT line is in the log; a file classified OK is never removed.
C2_RemovedOnlyIfCorrupt ==
  /\ \A i \in 1..Len(removeLog) :
       LET f == removeLog[i][2] IN
       /\ f \in Range(corrupted)
       /\ \E j \in 1..Len(log) : log[j][1] = "CORRUPT" /\ LinePath(log[j]) = f
  /\ \A f \in Range(files) \ fs : f \in Range(corrupted)
  /\ \A f \in Range(good) : f \in fs /\ Count(RemovePaths, f) = 0

C2_Witness ==
  /\ workers >= 2
  /\ good # <<>>
  /\ \E i \in 1..Len(removeLog) :
       removeLog[i][1] = "Deleted" /\ removeLog[i][2] \notin fs

\* C3: no removal is attempted while a submitted file is unclassified, and a
\* run that is left before all results are in removes nothing.
C3_NoDeletionBeforeAllClassified ==
  /\ (removeLog # <<>> \/ fs # Range(files) \/ pc = "delete") =>
       /\ Received = Len(files)
       /\ taskq = <<>> /\ running = {} /\ outq = <<>>
  /\ (pc = "aborted" /\ Received < Len(files)) =>
       removeLog = <<>> /\ fs = Range(files)

C3_Witness ==
  /\ pc = "aborted"
  /\ abortCause = "probe_error"
  /\ ~dry_run
  /\ corrupted # <<>>
  /\ Received < Len(files)
  /\ removeLog = <<>>

C5_ProbeErrorIsolated ==
  \A p \in Range(files) :
    probe[p].kind = "raise" => (pc = "aborted" => abortCause = "interrupt")

\* C6: without dry_run the deletion loop attempts every path of corrupted
\* exactly once, in order, whether or not earlier removals failed.
C6_WholeCorruptSetAttempted ==
  /\ pc = "delete" => RemovePaths = SubSeq(corrupted, 1, delIdx - 1)
  /\ (pc \in {"final", "done"} /\ ~dry_run) => RemovePaths = corrupted

C6_Witness ==
  /\ pc = "done"
  /\ ~dry_run
  /\ Len(removeLog) >= 2
  /\ removeLog[1][1] = "Could not delete"
  /\ removeLog[Len(removeLog)][1] = "Deleted"

\* C7: a file whose probe found no cvlc binary does not get a CORRUPT
\* verdict.
C7_UnavailableNotCorrupt ==
  \A i \in 1..Len(log) :
    probe[LinePath(log[i])].kind = "nocvlc" => log[i][1] # "CORRUPT"

\* C8: the log line of a file is determined by its probe outcome: OK<TAB>path
\* for a playable file, CORRUPT<TAB>reason<TAB>path with the reason of the
\* outcome for every other one, and the file is in the matching list.
C8_VerdictFromOutcome ==
  \A i \in 1..Len(log) :
    LET l == log[i]
        f == LinePath(l)
        ev == probe[f]
        o == vlc_can_play(ev)
    IN /\ o.playable <=> (ev.kind = "exit" /\ ev.returncode = 0)
       /\ o.playable => l = <<"OK", f>> /\ f \in Range(good)
       /\ ~o.playable => l = <<"CORRUPT", o.reason, f>> /\ f \in Range(corrupted)
       /\ ev.kind = "timeout" => l = <<"CORRUPT", <<"timeout expired">>, f>>
       /\ ev = Exit(1, <<" ", "decoder error", "\n">>) =>
            l = <<"CORRUPT", <<"decoder error">>, f>>

C8_Witness ==
  /\ Len(log) = 3
  /\ \E i, j, k \in 1..Len(log) :
       /\ log[i][1] = "OK"
       /\ log[j] = <<"CORRUPT", <<"decoder error">>, LinePath(log[j])>>
       /\ log[k] = <<"CORRUPT", <<"timeout expired">>, LinePath(log[k])>>

\* C9: every run eventually prints its summary with every file classified.
C9_RunFinishes ==
  <>(\/ pc = "nofiles"
     \/ summary # <<>> /\ Received = Len(files))

\* C10: the final good and corrupted sets are those of the sequential run,
\* for every worker count and completion order; with one worker the lists
\* themselves are those of the sequential run.
C10_SameAsSequential ==
  AggregationComplete =>
    LET seq == SeqScan(1, <<>>, <<>>) IN
    /\ ~seq.aborted
    /\ Range(good) = Range(seq.good)
    /\ Range(corrupted) = Range(seq.corrupted)
    /\ workers = 1 => good = seq.good /\ corrupted = seq.corrupted

C10_Witness ==
  /\ AggregationComplete
  /\ workers >= 2
  /\ Len(corrupted) >= 2
  /\ corrupted # SeqScan(1, <<>>, <<>>).corrupted
====
